---- MODULE Spec2Model ----
(***************************************************************************)
(* flapison/schema.py: compute_schema (compound documents and sparse       *)
(* fieldsets over marshmallow-jsonapi schemas) and the schema-field /      *)
(* model-field lookups.                                                    *)
(*                                                                         *)
(* Representation.                                                         *)
(*  - A dotted string is the non-empty sequence of its dot-free segments:  *)
(*    "b.a" is <<"b","a">>, "id" is <<"id">>.  p.split(".")[0] is Head(p), *)
(*    "." in p is Len(p) > 1, ".".join(p.split(".")[1:]) is Tail(p).       *)
(*  - A tuple that the code only ever reads through set(...) or `in`       *)
(*    ('only', 'exclude') is a set of such paths; Python's tuple(set) has  *)
(*    no defined order.  include and include_data keep their order.        *)
(*  - A dict entry is [t, v]: t = "absent" (no key), "none" (None) or      *)
(*    "val".                                                               *)
(*  - A schema instance is the record of what its constructor received     *)
(*    (marshmallow: only as passed, exclude () and many False when not     *)
(*    passed), the instance's own copy of the class's relationship fields  *)
(*    (marshmallow deep-copies _declared_fields per instance) and oid, the *)
(*    rank of the constructor call that made it (0: made before the call   *)
(*    to compute_schema).                                                  *)
(*  - compute_schema runs on an explicit call stack, one frame per call.   *)
(***************************************************************************)
EXTENDS Integers, Sequences, FiniteSets, TLC

VARIABLES
    args,       \* the arguments as the caller supplied them (never changes)
    qs_fields,  \* qs.fields: resource type -> requested field names
    dicts,      \* the kwargs dict objects; dicts[1] is the caller's default_kwargs
    stack,      \* the frames of compute_schema; the last is the running call
    status,     \* "running" | "returned" | "raised" | "idle"
    result,     \* <<schema>> once the outermost call has returned
    nobj,       \* schema instances constructed so far
    lk_schema,  \* the schema handed to get_model_field / get_schema_field
    lk_call,    \* the lookup last made
    lk_result   \* and what it gave

vars == <<args, qs_fields, dicts, stack, status, result, nobj,
          lk_schema, lk_call, lk_result>>

computeVars == <<args, qs_fields, dicts, stack, status, result, nobj>>
lookupVars == <<lk_schema, lk_call, lk_result>>

\* ------------------------------------------------------------------ bounds

\* include lists hold at most MaxPaths paths
MaxPaths == 2
\* a schema handed to the lookups declares at most MaxFields fields
MaxFields == 3

\* ------------------------------------------------------------- dict values

None == [t |-> "none", v |-> {}]
Absent == [t |-> "absent", v |-> {}]
Val(S) == [t |-> "val", v |-> S]
NoTuple == [t |-> "absent", v |-> <<>>]
TupleVal(s) == [t |-> "val", v |-> s]
NoMany == [t |-> "absent", v |-> FALSE]
ManyVal(b) == [t |-> "val", v |-> b]
NoList == [t |-> "none", v |-> <<>>]
EmptyMap == [f \in {} |-> <<>>]

\* {} : a dict with none of the keys the code reads
EmptyDict ==
    [include_data |-> NoTuple, only |-> Absent, exclude |-> Absent,
     many |-> NoMany, context |-> "absent"]

\* d.get(key) is not None
IsNotNone(e) == e.t = "val"

\* ---------------------------------------------------------- dotted strings

\* include_path.split(".")[0]
FirstSegment(p) == Head(p)

\* "." in include_path
HasDot(p) == Len(p) > 1

\* the path handed on whole, its first segment not removed
WholePath(p) == p

\* ".".join(include_path.split(".")[1:])
RestOfPath(p) == Tail(p)

\* ------------------------------------------------- the schema classes

\* class A: id, name, b = Relationship(schema="BSchema"),
\*          bs = Relationship(schema=B(only=("title", "id"), many=True))
\* class B: id, title, a = a Relationship subclass carrying only / exclude,
\*          with schema=A
Classes == {"A", "B"}

\* schema_cls.Meta.type_
TypeOf(c) == IF c = "A" THEN "a" ELSE "b"

\* schema_cls._declared_fields.keys(), in declaration order
DeclaredFields(c) ==
    IF c = "A" THEN <<"id", "name", "b", "bs">> ELSE <<"id", "title", "a">>

DeclaredNames(c) == {DeclaredFields(c)[k] : k \in 1..Len(DeclaredFields(c))}

\* isinstance(schema_cls._declared_fields[field], Relationship)
IsRelationship(c, f) ==
    \/ c = "A" /\ f \in {"b", "bs"}
    \/ c = "B" /\ f = "a"

RelationshipNames(c) == {f \in DeclaredNames(c) : IsRelationship(c, f)}

\* class_registry.get_class(name)
RegistryClass(name) == IF name = "ASchema" THEN "A" ELSE "B"

\* hasattr(relation_field, "only") and relation_field.only; likewise exclude
FieldAttrs(c, f) ==
    IF c = "B" /\ f = "a"
    THEN [hasonly |-> TRUE, only |-> None,
          hasexclude |-> TRUE, exclude |-> Val({<<"name">>})]
    ELSE [hasonly |-> FALSE, only |-> None,
          hasexclude |-> FALSE, exclude |-> None]

\* relation_field.__dict__["_Relationship__schema"] as the class declares it:
\* a schema class, a registry name or a schema instance
ClassRef(c) == [kind |-> "cls", ref |-> c, inst |-> <<>>]
NameRef(n) == [kind |-> "name", ref |-> n, inst |-> <<>>]
InstRef(s) == [kind |-> "inst", ref |-> "", inst |-> <<s>>]

DeclaredRelsB == [f \in {"a"} |-> ClassRef("A")]

PreBuiltB ==
    [cls |-> "B", only |-> Val({<<"title">>, <<"id">>}), exclude |-> {},
     many |-> TRUE, include_data |-> <<>>, context |-> "absent",
     rels |-> DeclaredRelsB, oid |-> 0]

DeclaredRels(c) ==
    IF c = "A"
    THEN [f \in {"b", "bs"} |->
             IF f = "b" THEN NameRef("BSchema") ELSE InstRef(PreBuiltB)]
    ELSE DeclaredRelsB

\* schema_cls(**schema_kwargs): the instance stores what it was given
NewSchema(c, kw, oid) ==
    [cls |-> c,
     only |-> IF kw.only.t = "val" THEN kw.only ELSE None,
     exclude |-> IF kw.exclude.t = "val" THEN kw.exclude.v ELSE {},
     many |-> IF kw.many.t = "val" THEN kw.many.v ELSE FALSE,
     include_data |-> kw.include_data.v,
     context |-> kw.context,
     rels |-> DeclaredRels(c),
     oid |-> oid]

\* ------------------------------------------------ compute_schema, by parts

\* the check without its isinstance(..., Relationship) branch
UndeclaredSegment(c, f) == f \notin DeclaredNames(c)

\* lines 33-42: the include segment that raises InvalidInclude
InvalidInclude(c, f) ==
    \/ f \notin DeclaredNames(c)
    \/ ~IsRelationship(c, f)

\* the first loop without line 48: the sub-paths are never collected
AddRelatedIncludeWithoutRest(ri, p) ==
    LET f == FirstSegment(p)
    IN  [g \in DOMAIN ri \cup {f} |-> IF g = f /\ f \notin DOMAIN ri THEN <<>> ELSE ri[g]]

\* lines 45-48: related_includes after one more include path
AddRelatedInclude(ri, p) ==
    LET f == FirstSegment(p)
        old == IF f \in DOMAIN ri THEN ri[f] ELSE <<>>
        new == IF HasDot(p) THEN Append(old, RestOfPath(p)) ELSE old
    IN  [g \in DOMAIN ri \cup {f} |-> IF g = f THEN new ELSE ri[g]]

\* line 44: include_data after one more include path
AddIncludeData(data, p) == Append(data, FirstSegment(p))

\* lines 53-62 and 75-84: the dotted entries, grouped by first segment
CollectRelated(e) ==
    IF ~IsNotNone(e) THEN EmptyMap
    ELSE LET dotted == {p \in e.v : HasDot(p)}
         IN  [f \in {FirstSegment(p) : p \in dotted} |->
                 {RestOfPath(p) : p \in {q \in dotted : FirstSegment(q) = f}}]

\* the sparse fieldset without line 68: the caller's only is not intersected
SparseOnlyWithoutOnly(c, only, qf) ==
    IF TypeOf(c) \in DOMAIN qf
    THEN Val({<<n>> : n \in DeclaredNames(c)} \cap qf[TypeOf(c)])
    ELSE only

\* lines 65-69: sparse fieldsets
SparseOnly(c, only, qf) ==
    IF TypeOf(c) \in DOMAIN qf
    THEN LET tmp == {<<n>> : n \in DeclaredNames(c)} \cap qf[TypeOf(c)]
         IN  Val(IF IsNotNone(only) THEN tmp \cap only.v ELSE tmp)
    ELSE only

\* lines 71-73 left out
WithoutId(only) == only

\* lines 71-73: id is always kept
EnsureId(only) ==
    IF IsNotNone(only) /\ <<"id">> \notin only.v
    THEN Val(only.v \cup {<<"id">>})
    ELSE only

\* lines 98-115: the related kwargs before the parent's dotted entries apply
BaseRelatedKwargs(kw, rel, attrs) ==
    LET k0 == [EmptyDict EXCEPT !.context = kw.context]
        k1 == IF rel.kind = "inst"
              THEN [k0 EXCEPT !.only = rel.inst[1].only,
                              !.exclude = Val(rel.inst[1].exclude),
                              !.many = ManyVal(rel.inst[1].many)]
              ELSE k0
        k2 == IF attrs.hasonly THEN [k1 EXCEPT !.only = attrs.only] ELSE k1
    IN  IF attrs.hasexclude THEN [k2 EXCEPT !.exclude = attrs.exclude] ELSE k2

\* line 120 with |= in the place of &=
NestedOnlyUnion(related_only, f, base) ==
    IF f \in DOMAIN related_only
    THEN Val(IF IsNotNone(base) THEN related_only[f] \cup base.v
             ELSE related_only[f])
    ELSE base

\* lines 117-121
NestedOnly(related_only, f, base) ==
    IF f \in DOMAIN related_only
    THEN Val(IF IsNotNone(base) THEN related_only[f] \cap base.v
             ELSE related_only[f])
    ELSE base

\* lines 123-127
NestedExclude(related_exclude, f, base) ==
    IF f \in DOMAIN related_exclude
    THEN Val(IF IsNotNone(base) THEN related_exclude[f] \cup base.v
             ELSE related_exclude[f])
    ELSE base

\* lines 102-109: the class of the related schema
RelatedClass(rel) ==
    IF rel.kind = "inst" THEN rel.inst[1].cls
    ELSE IF rel.kind = "name" THEN RegistryClass(rel.ref)
    ELSE rel.ref

\* line 133: related_includes[field] or None
OrNone(l) == IF l = <<>> THEN NoList ELSE TupleVal(l)

\* `if include:`
Truthy(inc) == inc.t = "val" /\ inc.v # <<>>

\* a frame at the entry of compute_schema(c, dicts[kw], qs, inc)
NewFrame(c, kw, kwargs, inc) ==
    [cls |-> c, kw |-> kw, kw_in |-> kwargs, include |-> inc, pc |-> "enter",
     i |-> 1, related_includes |-> EmptyMap, related_only |-> EmptyMap,
     related_exclude |-> EmptyMap, schema |-> <<>>]

Top == stack[Len(stack)]
SetTop(fr) == [stack EXCEPT ![Len(stack)] = fr]
Running == status = "running" /\ stack # <<>>

\* ----------------------------------------------------------------- inputs

IncludePaths ==
    {<<"b">>, <<"bs">>, <<"b", "a">>, <<"b", "a", "b">>, <<"name">>,
     <<"b", "zz">>, <<"bs", "a">>}

RECURSIVE ListsUpTo(_, _)
ListsUpTo(S, n) ==
    IF n = 0 THEN {<<>>}
    ELSE LET shorter == ListsUpTo(S, n - 1)
         IN  shorter \cup {Append(l, x) : l \in shorter, x \in S}

Includes == {NoList} \cup {TupleVal(l) : l \in ListsUpTo(IncludePaths, MaxPaths)}

Onlys ==
    {Absent, None, Val({<<"name">>}), Val({<<"id">>, <<"b", "title">>}),
     Val({<<"b", "a", "name">>, <<"bs", "id">>})}

Excludes == {Absent, Val({<<"name">>, <<"b", "id">>, <<"b", "a", "id">>})}

QsFields ==
    {EmptyMap,
     [t \in {"a", "b"} |->
         IF t = "a" THEN {<<"name">>, <<"b">>, <<"zz">>} ELSE {<<"title">>}]}

Contexts == {"absent", "ctx"}

\* ------------------------------------------------------------------- Init

LookupIdle ==
    /\ lk_schema = <<>>
    /\ lk_call = [op |-> "none", arg |-> ""]
    /\ lk_result = [raised |-> FALSE, value |-> ""]

Init ==
    /\ \E inc \in Includes, o \in Onlys, e \in Excludes, c \in Contexts :
          LET kw == [EmptyDict EXCEPT !.include_data = TupleVal(<<>>),
                                      !.only = o, !.exclude = e, !.context = c]
          IN  /\ args = [cls |-> "A", kwargs |-> kw, include |-> inc]
              /\ dicts = <<kw>>
              /\ stack = <<NewFrame("A", 1, kw, inc)>>
    /\ qs_fields \in QsFields
    /\ status = "running"
    /\ result = <<>>
    /\ nobj = 0
    /\ LookupIdle

\* ---------------------------------------------------------------- actions

\* lines 22-29: schema_kwargs = default_kwargs; schema_kwargs["include_data"] = ()
Enter ==
    /\ Running /\ Top.pc = "enter"
    /\ dicts' = [dicts EXCEPT ![Top.kw].include_data = TupleVal(<<>>)]
    /\ stack' = SetTop([Top EXCEPT !.pc = IF Truthy(Top.include) THEN "check"
                                          ELSE "build"])
    /\ UNCHANGED <<args, qs_fields, status, result, nobj, lookupVars>>

\* lines 30-42: an include path whose first segment is no relationship of the
\* class raises InvalidInclude, which no frame catches
CheckRaise ==
    /\ Running /\ Top.pc = "check"
    /\ InvalidInclude(Top.cls, FirstSegment(Top.include.v[Top.i]))
    /\ status' = "raised"
    /\ stack' = <<>>
    /\ UNCHANGED <<args, qs_fields, dicts, result, nobj, lookupVars>>

\* lines 30-48: one pass of the first loop
CheckOk ==
    /\ Running /\ Top.pc = "check"
    /\ ~InvalidInclude(Top.cls, FirstSegment(Top.include.v[Top.i]))
    /\ LET p == Top.include.v[Top.i]
           last == Top.i = Len(Top.include.v)
       IN  /\ dicts' = [dicts EXCEPT ![Top.kw].include_data =
                          TupleVal(AddIncludeData(dicts[Top.kw].include_data.v, p))]
           /\ stack' = SetTop([Top EXCEPT
                  !.related_includes = AddRelatedInclude(Top.related_includes, p),
                  !.i = IF last THEN 1 ELSE Top.i + 1,
                  !.pc = IF last THEN "build" ELSE "check"])
    /\ UNCHANGED <<args, qs_fields, status, result, nobj, lookupVars>>

\* lines 50-91: only, the sparse fieldset, the dotted entries, the instance
Build ==
    /\ Running /\ Top.pc = "build"
    /\ LET kw == dicts[Top.kw]
           only0 == IF kw.only.t = "absent" THEN None ELSE kw.only
           only == EnsureId(SparseOnly(Top.cls, only0, qs_fields))
           kw2 == [kw EXCEPT !.only = only]
       IN  /\ dicts' = [dicts EXCEPT ![Top.kw] = kw2]
           /\ nobj' = nobj + 1
           /\ stack' = SetTop([Top EXCEPT
                  !.related_only = CollectRelated(only0),
                  !.related_exclude = CollectRelated(kw.exclude),
                  !.schema = <<NewSchema(Top.cls, kw2, nobj + 1)>>,
                  !.i = 1,
                  !.pc = IF Truthy(Top.include) THEN "compound" ELSE "ret"])
    /\ UNCHANGED <<args, qs_fields, status, result, lookupVars>>

\* lines 92-134: one pass of the second loop, up to the recursive call
CompoundCall ==
    /\ Running /\ Top.pc = "compound"
    /\ LET f == FirstSegment(Top.include.v[Top.i])
           rel == Top.schema[1].rels[f]
           base == BaseRelatedKwargs(dicts[Top.kw], rel, FieldAttrs(Top.cls, f))
           kw == [base EXCEPT
                     !.only = NestedOnly(Top.related_only, f, base.only),
                     !.exclude = NestedExclude(Top.related_exclude, f, base.exclude)]
       IN  /\ dicts' = Append(dicts, kw)
           /\ stack' = Append(stack,
                  NewFrame(RelatedClass(rel), Len(dicts) + 1, kw,
                           OrNone(Top.related_includes[f])))
    /\ UNCHANGED <<args, qs_fields, status, result, nobj, lookupVars>>

\* lines 137 and 135: a nested call returns and its schema is installed
ReturnNested ==
    /\ Running /\ Top.pc = "ret" /\ Len(stack) > 1
    /\ LET parent == stack[Len(stack) - 1]
           f == FirstSegment(parent.include.v[parent.i])
           last == parent.i = Len(parent.include.v)
           installed == [parent.schema[1] EXCEPT !.rels[f] = InstRef(Top.schema[1])]
       IN  stack' = [SubSeq(stack, 1, Len(stack) - 1) EXCEPT ![Len(stack) - 1] =
                        [parent EXCEPT !.schema = <<installed>>,
                                       !.i = IF last THEN parent.i ELSE parent.i + 1,
                                       !.pc = IF last THEN "ret" ELSE "compound"]]
    /\ UNCHANGED <<args, qs_fields, dicts, status, result, nobj, lookupVars>>

\* line 137: the outermost call returns
ReturnTop ==
    /\ Running /\ Top.pc = "ret" /\ Len(stack) = 1
    /\ result' = Top.schema
    /\ status' = "returned"
    /\ stack' = <<>>
    /\ UNCHANGED <<args, qs_fields, dicts, nobj, lookupVars>>

Next ==
    \/ Enter
    \/ CheckRaise
    \/ CheckOk
    \/ Build
    \/ CompoundCall
    \/ ReturnNested
    \/ ReturnTop

Spec == Init /\ [][Next]_vars

\* compute_schema is an ordinary call: it keeps running until it returns or raises
FairSpec == Spec /\ WF_vars(Next)

\* ------------------------------------------- get_model_field, get_schema_field

NoAttr == [t |-> "none", v |-> ""]
Attr(m) == [t |-> "val", v |-> m]
Raised == [raised |-> TRUE, value |-> ""]
Returned(x) == [raised |-> FALSE, value |-> x]

\* schema._declared_fields.get(field) is not None
IsDeclared(s, f) == \E k \in 1..Len(s) : s[k].name = f

\* schema._declared_fields[field]
FieldOf(s, f) == s[CHOOSE k \in 1..Len(s) : s[k].name = f]

\* the scan that returns the last match instead of the first
RECURSIVE ScanFromEnd(_, _, _)
ScanFromEnd(s, m, k) ==
    IF k < 1 \/ k > Len(s) THEN Raised
    ELSE LET j == Len(s) + 1 - k
             mf == IF s[j].attribute.t = "val" THEN s[j].attribute.v ELSE s[j].name
         IN  IF mf = m THEN Returned(s[j].name) ELSE ScanFromEnd(s, m, k + 1)

\* get_schema_field returning the last matching key
get_schema_field_last_match(s, m) == ScanFromEnd(s, m, 1)

\* lines 147-152
get_model_field(s, f) ==
    IF ~IsDeclared(s, f) THEN Raised
    ELSE IF FieldOf(s, f).attribute.t = "val"
         THEN Returned(FieldOf(s, f).attribute.v)
         ELSE Returned(f)

\* lines 231-235: the first key, in declaration order, whose model field is m
RECURSIVE ScanFields(_, _, _)
ScanFields(s, m, k) ==
    IF k > Len(s) THEN Raised
    ELSE IF get_model_field(s, s[k].name).value = m THEN Returned(s[k].name)
         ELSE ScanFields(s, m, k + 1)

\* lines 227-235
get_schema_field(s, m) == ScanFields(s, m, 1)

LookupFieldNames == {"id", "name", "title", "b"}
LookupModelNames == {"name", "x"}
LookupArgs == LookupFieldNames \cup LookupModelNames \cup {"zz"}

LookupFields ==
    {[name |-> n, attribute |-> a] :
        n \in LookupFieldNames, a \in {NoAttr} \cup {Attr(m) : m \in LookupModelNames}}

\* _declared_fields is a dict: its keys are distinct
DistinctNames(s) ==
    \A j, k \in 1..Len(s) : j # k => s[j].name # s[k].name

LookupSchemas ==
    {s \in ListsUpTo(LookupFields, MaxFields) : s # <<>> /\ DistinctNames(s)}

ComputeIdle ==
    /\ args = [cls |-> "A", kwargs |-> EmptyDict, include |-> NoList]
    /\ qs_fields = EmptyMap
    /\ dicts = <<>>
    /\ stack = <<>>
    /\ status = "idle"
    /\ result = <<>>
    /\ nobj = 0

LookupInit ==
    /\ ComputeIdle
    /\ lk_schema \in LookupSchemas
    /\ lk_call = [op |-> "none", arg |-> ""]
    /\ lk_result = [raised |-> FALSE, value |-> ""]

\* get_model_field(schema, f)
CallGetModelField ==
    /\ \E f \in LookupArgs :
          /\ lk_call' = [op |-> "get_model_field", arg |-> f]
          /\ lk_result' = get_model_field(lk_schema, f)
    /\ UNCHANGED <<lk_schema, computeVars>>

\* get_schema_field(schema, m)
CallGetSchemaField ==
    /\ \E m \in LookupArgs :
          /\ lk_call' = [op |-> "get_schema_field", arg |-> m]
          /\ lk_result' = get_schema_field(lk_schema, m)
    /\ UNCHANGED <<lk_schema, computeVars>>

\* get_schema_field(schema, get_model_field(schema, f)) for a declared f
CallRoundTrip ==
    /\ \E f \in LookupArgs :
          /\ IsDeclared(lk_schema, f)
          /\ lk_call' = [op |-> "round_trip", arg |-> f]
          /\ lk_result' = get_schema_field(lk_schema, get_model_field(lk_schema, f).value)
    /\ UNCHANGED <<lk_schema, computeVars>>

LookupNext ==
    \/ CallGetModelField
    \/ CallGetSchemaField
    \/ CallRoundTrip

LookupSpec == LookupInit /\ [][LookupNext]_vars

\* ================================================================ the claims

SeqSet(s) == {s[k] : k \in 1..Len(s)}
IncludeList(inc) == IF inc.t = "val" THEN inc.v ELSE <<>>
RequestedPaths == SeqSet(IncludeList(args.include))
Finished == status \in {"returned", "raised"}
Frames == 1..Len(stack)
NestedFrames == 2..Len(stack)
HasSchema(fr) == fr.schema # <<>>
IdPath == <<"id">>
OrNoneValue(e) == IF e.t = "val" THEN e ELSE None
SetOf(e) == IF e.t = "val" THEN e.v ELSE {}

\* the class a relationship of class c leads to, as declared
DeclaredTarget(c, f) == RelatedClass(DeclaredRels(c)[f])

\* reading p segment by segment from class c meets a segment that is not a
\* declared field, or not a Relationship, of the schema at its level
RECURSIVE PathInvalid(_, _)
PathInvalid(c, p) ==
    IF p = <<>> THEN FALSE
    ELSE IF Head(p) \notin DeclaredNames(c) THEN TRUE
    ELSE IF ~IsRelationship(c, Head(p)) THEN TRUE
    ELSE PathInvalid(DeclaredTarget(c, Head(p)), Tail(p))

\* C1: compute_schema raises InvalidInclude exactly when some requested include
\* path, read through the related schemas, meets a segment that is undeclared or
\* no Relationship at its level; a path that fails at the top level fails before
\* any schema instance is constructed, and no call gets past its first loop with
\* an include whose first segment is not a Relationship of its class.
C1_InvalidIncludeIff ==
    /\ status = "raised" => \E p \in RequestedPaths : PathInvalid(args.cls, p)
    /\ status = "returned" => \A p \in RequestedPaths : ~PathInvalid(args.cls, p)
    /\ (status = "raised"
          /\ \E p \in RequestedPaths : PathInvalid(args.cls, <<Head(p)>>))
       => nobj = 0
    /\ \A d \in Frames :
          stack[d].pc \in {"build", "compound", "ret"} =>
             \A p \in SeqSet(IncludeList(stack[d].include)) :
                 Head(p) \in RelationshipNames(stack[d].cls)

\* InvalidInclude raised by a nested call, after schema instances were built
C1_Witness == status = "raised" /\ nobj >= 2

\* the 'only' the claim expects the constructor of class c to receive when the
\* call was handed o
ExpectedOnly(c, o) ==
    LET declared == {<<n>> : n \in DeclaredNames(c)}
    IN  IF TypeOf(c) \in DOMAIN qs_fields
        THEN Val(((declared \cap qs_fields[TypeOf(c)])
                    \cap (IF o.t = "val" THEN o.v ELSE declared)) \cup {IdPath})
        ELSE IF o.t = "val" THEN Val(o.v \cup {IdPath}) ELSE None

\* C2: the 'only' passed to the schema constructor is (declared fields /\
\* qs.fields[type_] /\ the caller's only when not None) plus id when the type is
\* a key of qs.fields, and otherwise the caller's only, with id added when it is
\* not None, and None when it was None.
C2_OnlyPassedToConstructor ==
    \A d \in Frames :
        HasSchema(stack[d]) =>
            stack[d].schema[1].only = ExpectedOnly(stack[d].cls, stack[d].kw_in.only)

\* a sparse fieldset met a caller's only and kept a field other than id
C2_Witness ==
    \E d \in Frames :
        /\ HasSchema(stack[d])
        /\ TypeOf(stack[d].cls) \in DOMAIN qs_fields
        /\ stack[d].kw_in.only.t = "val"
        /\ <<"name">> \in stack[d].schema[1].only.v

\* schema s matches the include paths handed to its level
RECURSIVE MatchesRequest(_, _)
MatchesRequest(s, paths) ==
    /\ SeqSet(s.include_data) = {Head(p) : p \in paths}
    /\ \A r \in DOMAIN s.rels :
          LET through == {p \in paths : Head(p) = r}
          IN  IF through = {}
              THEN s.rels[r] = DeclaredRels(s.cls)[r]
              ELSE /\ s.rels[r].kind = "inst"
                   /\ s.rels[r].inst[1].oid > 0
                   /\ s.rels[r].inst[1].cls = DeclaredTarget(s.cls, r)
                   /\ MatchesRequest(s.rels[r].inst[1],
                                     {Tail(p) : p \in {q \in through : Len(q) > 1}})

\* C3: the schema returned matches the request at every depth: a relationship
\* is replaced by a freshly computed schema exactly when its dotted path is a
\* prefix of a requested include path, and include_data at each level holds
\* exactly the first segments of the paths handed to that level.
C3_SchemaMatchesInclude ==
    status = "returned" => MatchesRequest(result[1], RequestedPaths)

\* a schema returned for a request three relationships deep
C3_Witness ==
    /\ status = "returned"
    /\ \E p \in RequestedPaths : Len(p) >= 3
    /\ \E p \in RequestedPaths : Len(p) = 1

\* C4: after the call, returned or raised, the caller's default_kwargs holds
\* the keys and values it held before the call.
C4_DefaultKwargsUnchanged ==
    Finished => dicts[1] = args.kwargs

\* C6: every schema instance is constructed with only = None or with an only
\* that contains id.
C6_OnlyContainsId ==
    \A d \in Frames :
        HasSchema(stack[d]) =>
            \/ stack[d].schema[1].only = None
            \/ /\ stack[d].schema[1].only.t = "val"
               /\ IdPath \in stack[d].schema[1].only.v

\* a nested schema whose only came without id and whose type has a sparse fieldset
C6_Witness ==
    \E d \in NestedFrames :
        /\ HasSchema(stack[d])
        /\ stack[d].kw_in.only.t = "val"
        /\ IdPath \notin stack[d].kw_in.only.v
        /\ TypeOf(stack[d].cls) \in DOMAIN qs_fields

\* the relationship field the call in frame d was made for
CallerField(d) == Head(stack[d - 1].include.v[stack[d - 1].i])

\* the related schema that field held when the call was made
CallerRel(d) == stack[d - 1].schema[1].rels[CallerField(d)]

\* the relationship's own only and exclude
ExistingOnly(d) ==
    LET attrs == FieldAttrs(stack[d - 1].cls, CallerField(d))
    IN  IF attrs.hasonly THEN attrs.only
        ELSE IF CallerRel(d).kind = "inst" THEN CallerRel(d).inst[1].only
        ELSE None

ExistingExclude(d) ==
    LET attrs == FieldAttrs(stack[d - 1].cls, CallerField(d))
    IN  IF attrs.hasexclude THEN SetOf(attrs.exclude)
        ELSE IF CallerRel(d).kind = "inst" THEN CallerRel(d).inst[1].exclude
        ELSE {}

\* the suffixes of the entries of e that start with "f."
Suffixes(e, f) == {Tail(p) : p \in {q \in SetOf(e) : Len(q) > 1 /\ Head(q) = f}}

\* C7: the kwargs of a recursive call for relationship f: only is the suffixes
\* of the parent's "f." only entries, intersected with the relationship's own
\* only when that is not None (the relationship's own only when the parent has
\* no "f." entry); exclude is the suffixes of the parent's "f." exclude entries
\* united with the relationship's own exclude.
C7_NestedOnlyAndExclude ==
    \A d \in NestedFrames :
        LET sufOnly == Suffixes(stack[d - 1].kw_in.only, CallerField(d))
            sufExclude == Suffixes(stack[d - 1].kw_in.exclude, CallerField(d))
        IN  /\ OrNoneValue(stack[d].kw_in.only) =
                  IF sufOnly = {} THEN OrNoneValue(ExistingOnly(d))
                  ELSE IF ExistingOnly(d).t = "val"
                       THEN Val(sufOnly \cap ExistingOnly(d).v)
                       ELSE Val(sufOnly)
            /\ SetOf(stack[d].kw_in.exclude) = sufExclude \cup ExistingExclude(d)

\* a call whose only is the parent's suffixes cut down by the relationship's own
C7_Witness ==
    \E d \in NestedFrames :
        /\ Suffixes(stack[d - 1].kw_in.only, CallerField(d)) # {}
        /\ ExistingOnly(d).t = "val"
        /\ stack[d].kw_in.only.v # {}
        /\ stack[d].kw_in.only.v # ExistingOnly(d).v

\* the largest number of segments of a requested include path
MaxSegments ==
    IF RequestedPaths = {} THEN 0
    ELSE CHOOSE n \in {Len(p) : p \in RequestedPaths} :
             \A p \in RequestedPaths : Len(p) <= n

DepthBounded == Len(stack) - 1 <= MaxSegments

SubPathsShorter ==
    \A d \in NestedFrames :
        \A q \in SeqSet(IncludeList(stack[d].include)) :
            \E p \in SeqSet(IncludeList(stack[d - 1].include)) :
                /\ Len(q) < Len(p)
                /\ q = Tail(p)

RECURSIVE Contents(_)
Contents(s) ==
    [s EXCEPT !.oid = 0,
              !.rels = [r \in DOMAIN s.rels |->
                          IF s.rels[r].kind = "inst"
                          THEN InstRef(Contents(s.rels[r].inst[1]))
                          ELSE s.rels[r]]]

\* C9: a relationship processed again, for a later include path with the same
\* first segment, ends with a related schema of the same only, exclude, many,
\* include_data and nested related schemas as the one the first pass installed.
C9_ReprocessingIdempotent ==
    \A d \in NestedFrames :
        (/\ stack[d].pc = "ret"
         /\ CallerRel(d).kind = "inst"
         /\ CallerRel(d).inst[1].oid > 0)
        => Contents(stack[d].schema[1]) = Contents(CallerRel(d).inst[1])

\* the model field the claim gives the k-th declared field
ModelNameAt(s, k) ==
    IF s[k].attribute.t = "val" THEN s[k].attribute.v ELSE s[k].name

IndexOf(s, f) == CHOOSE k \in 1..Len(s) : s[k].name = f

\* C5: get_model_field gives a declared field's attribute when not None and the
\* field's name otherwise, and raises for an undeclared name; get_schema_field
\* gives the first declared field, in declaration order, that maps to the model
\* name and raises when none does; so get_schema_field(get_model_field(f))
\* is a declared field with the model name of f, and f itself when no two
\* declared fields share a model name.
C5_LookupCorrespondence ==
    LET s == lk_schema
        a == lk_call.arg
        mapsTo(m) == {k \in 1..Len(s) : ModelNameAt(s, k) = m}
        first(m) == CHOOSE k \in mapsTo(m) : \A j \in mapsTo(m) : k <= j
    IN  /\ lk_call.op = "get_model_field" =>
              IF IsDeclared(s, a)
              THEN lk_result = Returned(ModelNameAt(s, IndexOf(s, a)))
              ELSE lk_result.raised
        /\ lk_call.op = "get_schema_field" =>
              IF mapsTo(a) = {} THEN lk_result.raised
              ELSE lk_result = Returned(s[first(a)].name)
        /\ lk_call.op = "round_trip" =>
              LET m == ModelNameAt(s, IndexOf(s, a))
              IN  /\ ~lk_result.raised
                  /\ IsDeclared(s, lk_result.value)
                  /\ ModelNameAt(s, IndexOf(s, lk_result.value)) = m
                  /\ lk_result.value = s[first(m)].name
                  /\ Cardinality(mapsTo(m)) = 1 => lk_result.value = a

\* a round trip that gives another field than it started from
C5_Witness ==
    /\ lk_call.op = "round_trip"
    /\ ~lk_result.raised
    /\ lk_result.value # lk_call.arg

====
